---- MODULE Spec2Model ----
(***************************************************************************)
(* Model of the Hugdl HuggingFace model downloader.                        *)
(*   src/main.go           the "full" version (progress bar)               *)
(*   src/unnamed/part_000  the "simple" version (hugdl.go, plain io.Copy)  *)
(* main() lists the files of a model (getModelFiles), creates the output   *)
(* directory (os.MkdirAll) and downloads every listed file in order        *)
(* (downloadFile), counting the downloads that returned no error.          *)
(*                                                                         *)
(* Strings are sequences of one-character strings, so that filepath.Base   *)
(* is computed, not assumed.  A response body is a sequence of chunk       *)
(* lengths: one chunk is one Read/Write round of io.Copy.                  *)
(***************************************************************************)
EXTENDS Integers, Sequences, FiniteSets, TLC

VARIABLES
    version,       \* "full" (main.go) or "simple" (hugdl.go)
    pc,            \* position of main: "start", "listed", "loop", "exited";
                   \* in SpecLive also "listing" and "downloading"
    listErr,       \* err returned by getModelFiles ("" = nil)
    files,         \* files returned by getModelFiles
    mkdirErr,      \* os.MkdirAll returned an error
    dirCreated,    \* os.MkdirAll returned nil: the model directory exists
    fs,            \* regular files of the model directory: name -> content
    idx,           \* number of loop iterations of main completed
    successCount,  \* main's successCount
    attempts,      \* log: index (into files) of every downloadFile call made
    results,       \* log: what every downloadFile call returned
    summary,       \* the printed "S/T" summary, or NoSummary
    exitCode,      \* process exit code, or Running
    apiResponse,   \* SpecList: the listing response handed to getModelFiles
    listResult,    \* SpecList: what getModelFiles returned for it
    cmpInput,      \* SpecCmp: the (file, response) both versions are run on
    cmpFull,       \* SpecCmp: result of main.go's downloadFile
    cmpSimple,     \* SpecCmp: result of hugdl.go's downloadFile
    inflight       \* SpecLive: the HTTP request main is blocked in, and
                   \* whether its server will answer

vars == <<version, pc, listErr, files, mkdirErr, dirCreated, fs, idx,
          successCount, attempts, results, summary, exitCode,
          apiResponse, listResult, cmpInput, cmpFull, cmpSimple, inflight>>

runVars == <<version, pc, listErr, files, mkdirErr, dirCreated, fs, idx,
             successCount, attempts, results, summary, exitCode>>

listVars == <<apiResponse, listResult>>

cmpVars == <<cmpInput, cmpFull, cmpSimple>>

liveVars == <<inflight>>

----------------------------------------------------------------------------
(* Bounds of the model. *)

\* most items in one listing response
MaxItems == 2

\* longest path (in characters) of a listing item given to getModelFiles
MaxPathLen == 2

(* Program constants. *)

\* http.StatusOK
StatusOK == 200

\* os.Exit(1)
ExitFailure == 1

\* main returns normally
ExitSuccess == 0

----------------------------------------------------------------------------
(* Input domains. *)

SeqsUpTo(S, n) == UNION {[1..k -> S] : k \in 0..n}

Sep == "/"

\* characters of the paths given to getModelFiles alone
Alphabet == {"a", Sep}

Paths == SeqsUpTo(Alphabet, MaxPathLen)

\* paths of the listings of whole runs: "a" and "d/a" share the base name "a"
RunPaths == {<<"a">>, <<"b">>, <<"d", Sep, "a">>}

Types == {"file", "directory"}

\* declared sizes; 0 is what a missing "size" decodes to
Sizes == {0, 1}

\* HTTP statuses a server answers with: 200 and one other
Statuses == {StatusOK, 404}

Versions == {"full", "simple"}

NoErr == ""

\* exitCode while the process runs; <<c>> once it exited with code c
Running == <<>>

NoSummary == <<>>

ItemsOver(P) == [type : Types, path : P, size : Sizes]

ListResp(c, s, d, its) ==
    [connOk |-> c, status |-> s, decodeOk |-> d, items |-> its]

\* what the listing endpoint can answer: no connection, a status other than
\* 200, a body that does not decode, or an array of items
ListResponsesOver(P) ==
    {ListResp(FALSE, StatusOK, TRUE, <<>>),
     ListResp(TRUE, StatusOK, FALSE, <<>>)}
    \cup {ListResp(TRUE, s, TRUE, <<>>) : s \in Statuses \ {StatusOK}}
    \cup {ListResp(TRUE, StatusOK, TRUE, its) :
            its \in SeqsUpTo(ItemsOver(P), MaxItems)}

----------------------------------------------------------------------------
(* filepath.Base, as path/filepath computes it on a slash-separated path. *)

RECURSIVE StripTrailing(_)
StripTrailing(p) ==
    IF Len(p) > 0 /\ p[Len(p)] = Sep
      THEN StripTrailing(SubSeq(p, 1, Len(p) - 1))
      ELSE p

RECURSIVE LastSepIndex(_, _)
LastSepIndex(p, i) ==
    IF i >= 1 /\ p[i] # Sep THEN LastSepIndex(p, i - 1) ELSE i

BaseWholePath(path) == path

Base(path) ==
    IF path = <<>> THEN <<".">>
    ELSE LET s == StripTrailing(path)
             i == LastSepIndex(s, Len(s))
             t == IF i >= 1 THEN SubSeq(s, i + 1, Len(s)) ELSE s
         IN  IF t = <<>> THEN <<Sep>> ELSE t

----------------------------------------------------------------------------
(* getModelFiles *)

ModelInfo(item) ==
    [Name |-> Base(item.path), Type |-> item.type,
     Size |-> item.size, Path |-> item.path]

RECURSIVE FilterFiles(_)
FilterFiles(items) ==
    IF items = <<>> THEN <<>>
    ELSE LET rest == FilterFiles(Tail(items))
         IN  IF Head(items).type = "file"
               THEN <<ModelInfo(Head(items))>> \o rest
               ELSE rest

getModelFiles(r) ==
    IF ~r.connOk THEN [files |-> <<>>, err |-> "failed to fetch model info"]
    ELSE IF r.status # StatusOK
      THEN [files |-> <<>>, err |-> "API returned status"]
    ELSE IF ~r.decodeOk
      THEN [files |-> <<>>, err |-> "failed to decode API response"]
    ELSE [files |-> FilterFiles(r.items), err |-> NoErr]

----------------------------------------------------------------------------
(* downloadFile *)

\* response bodies: the chunks io.Copy reads, one Write per chunk
Bodies == {<<>>, <<1>>, <<2>>, <<1, 1>>}

\* a body stream delivers its chunks and then ends with EOF or with a read
\* error (broken connection, client timeout)
StreamEnds == {"EOF", "error"}

DlResp(req, conn, status, create, body, end) ==
    [reqOk |-> req, connOk |-> conn, status |-> status, createOk |-> create,
     body |-> body, end |-> end]

\* what one download can meet: http.NewRequest fails, client.Do fails, a
\* status other than 200, os.Create fails, or a 200 with a body stream
DlResponses ==
    {DlResp(FALSE, TRUE, StatusOK, TRUE, <<>>, "EOF"),
     DlResp(TRUE, FALSE, StatusOK, TRUE, <<>>, "EOF"),
     DlResp(TRUE, TRUE, StatusOK, FALSE, <<>>, "EOF")}
    \cup {DlResp(TRUE, TRUE, s, TRUE, <<>>, "EOF") : s \in Statuses \ {StatusOK}}
    \cup {DlResp(TRUE, TRUE, StatusOK, TRUE, b, e) : b \in Bodies, e \in StreamEnds}

\* content of a local file: the entry it was read from and the bytes written
Content(path, n) == [src |-> path, bytes |-> n]

\* os.Create: creates the file or truncates the existing one
CreateFile(dir, name, path) ==
    [n \in DOMAIN dir \cup {name} |->
        IF n = name THEN Content(path, 0) ELSE dir[n]]

WriteFile(dir, name, n) == [dir EXCEPT ![name].bytes = @ + n]

\* os.Create fails when the operating system refuses, and always when the
\* name resolves to a directory: "." and "/" join to the model directory
CreateFails(name, resp) == ~resp.createOk \/ name \in {<<".">>, <<Sep>>}

\* progressbar.ProgressBar.Write -> Add64(len(chunk)) of
\* github.com/schollz/progressbar/v3: the count grows only while it is below
\* max, and a count above max is the error "current number exceeds max"
BarAdd(cur, max, n) ==
    LET c == IF cur < max THEN cur + n ELSE cur
    IN  [cur |-> c, err |-> c > max]

\* io.Copy(out, resp.Body): every chunk read is written to the file; the
\* stream's read error is returned after the chunks before it
RECURSIVE CopyPlain(_, _, _, _)
CopyPlain(dir, name, chunks, end) ==
    IF chunks = <<>> THEN [fs |-> dir, err |-> end # "EOF"]
    ELSE CopyPlain(WriteFile(dir, name, Head(chunks)), name, Tail(chunks), end)

\* io.Copy(io.MultiWriter(out, bar), resp.Body): every chunk is written to
\* the file first and to the bar second; an error of either writer ends the
\* copy
RECURSIVE CopyMulti(_, _, _, _, _, _)
CopyMulti(dir, name, chunks, end, cur, max) ==
    IF chunks = <<>> THEN [fs |-> dir, err |-> end # "EOF"]
    ELSE LET d == WriteFile(dir, name, Head(chunks))
             b == BarAdd(cur, max, Head(chunks))
         IN  IF b.err THEN [fs |-> d, err |-> TRUE]
             ELSE CopyMulti(d, name, Tail(chunks), end, b.cur, max)

Return(e, dir) == [err |-> e, fs |-> dir]

downloadFileCreateFirst(ver, file, resp, dir) ==
    IF ~resp.reqOk THEN Return("failed to create request", dir)
    ELSE IF ~resp.connOk THEN Return("failed to download", dir)
    ELSE IF CreateFails(file.Name, resp)
      THEN Return("failed to create output file", dir)
    ELSE LET d == CreateFile(dir, file.Name, file.Path) IN
         IF resp.status # StatusOK
           THEN Return("download failed with status", d)
         ELSE LET c == CopyPlain(d, file.Name, resp.body, resp.end)
              IN  Return(IF c.err THEN "failed to save file" ELSE NoErr, c.fs)

downloadFile(ver, file, resp, dir) ==
    IF ~resp.reqOk THEN Return("failed to create request", dir)
    ELSE IF ~resp.connOk THEN Return("failed to download", dir)
    ELSE IF resp.status # StatusOK
      THEN Return("download failed with status", dir)
    ELSE IF CreateFails(file.Name, resp)
      THEN Return("failed to create output file", dir)
    ELSE LET d == CreateFile(dir, file.Name, file.Path)
             c == IF ver = "full" /\ file.Size > 0
                    THEN CopyMulti(d, file.Name, resp.body, resp.end,
                                   0, file.Size)
                    ELSE CopyPlain(d, file.Name, resp.body, resp.end)
         IN  Return(IF c.err THEN "failed to save file" ELSE NoErr, c.fs)

----------------------------------------------------------------------------
(* main *)

EmptyDir == [n \in {} |-> Content(<<>>, 0)]

\* a model directory left by an earlier run: one file named "a"
OldDir == [n \in {<<"a">>} |-> Content(<<"earlier run">>, 1)]

InitialDirs == {EmptyDir, OldDir}

NoResult == [files |-> <<>>, err |-> "pending"]

NoDownload == [err |-> "pending", fs |-> EmptyDir]

NoInput == [file |-> ModelInfo([type |-> "file", path |-> <<>>, size |-> 0]),
            resp |-> DlResp(TRUE, TRUE, StatusOK, TRUE, <<>>, "EOF"),
            dir |-> EmptyDir]

ListIdle ==
    /\ apiResponse = ListResp(TRUE, StatusOK, TRUE, <<>>)
    /\ listResult = NoResult

\* no request in flight
NoRequest == "none"

CmpIdle ==
    /\ cmpInput = NoInput
    /\ cmpFull = NoDownload
    /\ cmpSimple = NoDownload
    /\ inflight = NoRequest

RunStart ==
    /\ pc = "start"
    /\ listErr = NoErr
    /\ files = <<>>
    /\ mkdirErr = FALSE
    /\ dirCreated = FALSE
    /\ idx = 0
    /\ successCount = 0
    /\ attempts = <<>>
    /\ results = <<>>
    /\ summary = NoSummary
    /\ exitCode = Running

Init ==
    /\ version \in Versions
    /\ fs \in InitialDirs
    /\ RunStart
    /\ ListIdle
    /\ CmpIdle

\* -help: usage is printed and main returns
ShowHelp ==
    /\ pc = "start"
    /\ pc' = "exited"
    /\ exitCode' = <<ExitSuccess>>
    /\ UNCHANGED <<version, listErr, files, mkdirErr, dirCreated, fs, idx,
                   successCount, attempts, results, summary>>
    /\ UNCHANGED <<listVars, cmpVars, liveVars>>

\* Step 1: files, err := getModelFiles(...); an error is fatal
List ==
    /\ pc = "start"
    /\ \E r \in ListResponsesOver(RunPaths) :
         LET g == getModelFiles(r) IN
         /\ listErr' = g.err
         /\ files' = g.files
         /\ pc' = IF g.err # NoErr THEN "exited" ELSE "listed"
         /\ exitCode' = IF g.err # NoErr THEN <<ExitFailure>> ELSE exitCode
    /\ UNCHANGED <<version, mkdirErr, dirCreated, fs, idx, successCount,
                   attempts, results, summary>>
    /\ UNCHANGED <<listVars, cmpVars, liveVars>>

\* os.MkdirAll returns nil for a directory that exists already; creating
\* one can fail
MkdirOutcomes(dir) == IF dir # EmptyDir THEN {TRUE} ELSE BOOLEAN

AfterMkdirAlwaysLoop(ok) == "loop"

\* where main goes after os.MkdirAll: into the loop, or os.Exit(1)
AfterMkdir(ok) == IF ok THEN "loop" ELSE "exited"

\* Step 2: os.MkdirAll(modelDir); an error is fatal
Mkdir ==
    /\ pc = "listed"
    /\ \E ok \in MkdirOutcomes(fs) :
         /\ mkdirErr' = ~ok
         /\ dirCreated' = ok
         /\ pc' = AfterMkdir(ok)
         /\ exitCode' = IF AfterMkdir(ok) = "exited"
                          THEN <<ExitFailure>> ELSE exitCode
    /\ successCount' = 0
    /\ UNCHANGED <<version, listErr, files, fs, idx, attempts, results,
                   summary>>
    /\ UNCHANGED <<listVars, cmpVars, liveVars>>

NextIndexStopOnError(i, n, err) == IF err # NoErr THEN n ELSE i + 1

\* for i, file := range files: the next iteration, whatever err was
NextIndex(i, n, err) == i + 1

CountEveryAttempt(count, err) == count + 1

\* successCount++ in the else branch of err != nil
CountAfter(count, err) == IF err = NoErr THEN count + 1 ELSE count

\* bytes the call left in the local file it created, 0 if it created none
Written(r, name) ==
    IF r.err \in {NoErr, "failed to save file"} THEN r.fs[name].bytes ELSE 0

\* Step 3, one iteration: downloadFile(files[idx+1]) and the count
Download ==
    /\ pc = "loop"
    /\ idx < Len(files)
    /\ \E resp \in DlResponses :
         LET file == files[idx + 1]
             r == downloadFile(version, file, resp, fs)
         IN  /\ fs' = r.fs
             /\ attempts' = Append(attempts, idx + 1)
             /\ results' = Append(results,
                    [err |-> r.err, written |-> Written(r, file.Name)])
             /\ successCount' = CountAfter(successCount, r.err)
             /\ idx' = NextIndex(idx, Len(files), r.err)
    /\ UNCHANGED <<version, pc, listErr, files, mkdirErr, dirCreated,
                   summary, exitCode>>
    /\ UNCHANGED <<listVars, cmpVars, liveVars>>

ExitCodeFailedDownloads(count, n) ==
    IF count < n THEN ExitFailure ELSE ExitSuccess

\* main returns after the summary, whatever successCount is
ExitCodeAtEnd(count, n) == ExitSuccess

\* the loop is over: the summary line, then main returns
Summary ==
    /\ pc = "loop"
    /\ idx >= Len(files)
    /\ summary' = <<successCount, Len(files)>>
    /\ exitCode' = <<ExitCodeAtEnd(successCount, Len(files))>>
    /\ pc' = "exited"
    /\ UNCHANGED <<version, listErr, files, mkdirErr, dirCreated, fs, idx,
                   successCount, attempts, results>>
    /\ UNCHANGED <<listVars, cmpVars, liveVars>>

Next == ShowHelp \/ List \/ Mkdir \/ Download \/ Summary

Spec == Init /\ [][Next]_vars

----------------------------------------------------------------------------
(* getModelFiles alone, on every listing response within the bounds. *)

InitList ==
    /\ version = "simple"
    /\ fs = EmptyDir
    /\ RunStart
    /\ apiResponse \in ListResponsesOver(Paths)
    /\ listResult = NoResult
    /\ CmpIdle

ApplyList ==
    /\ listResult = NoResult
    /\ listResult' = getModelFiles(apiResponse)
    /\ UNCHANGED <<apiResponse, runVars, cmpVars, liveVars>>

NextList == ApplyList

SpecList == InitList /\ [][NextList]_vars

----------------------------------------------------------------------------
(* downloadFile of both versions on the same entry, response and directory. *)

FileEntries == {ModelInfo(it) : it \in {i \in ItemsOver(Paths) : i.type = "file"}}

InitCmp ==
    /\ version = "simple"
    /\ fs = EmptyDir
    /\ RunStart
    /\ ListIdle
    /\ cmpInput \in [file : FileEntries, resp : DlResponses, dir : InitialDirs]
    /\ cmpFull = NoDownload
    /\ cmpSimple = NoDownload
    /\ inflight = NoRequest

Compare ==
    /\ cmpFull = NoDownload
    /\ cmpFull' = downloadFile("full", cmpInput.file, cmpInput.resp, cmpInput.dir)
    /\ cmpSimple' = downloadFile("simple", cmpInput.file, cmpInput.resp, cmpInput.dir)
    /\ UNCHANGED <<cmpInput, runVars, listVars, liveVars>>

NextCmp == Compare

SpecCmp == InitCmp /\ [][NextCmp]_vars

----------------------------------------------------------------------------
(* A whole run with its blocking calls split in two: the request is sent,  *)
(* and the call returns when the server answers or when the client's timer *)
(* fires.  getModelFiles calls http.Get, the default client, which has no  *)
(* Timeout; downloadFile builds a client with Timeout: 30 * time.Minute,   *)
(* which covers the request and the reading of the body.                   *)

\* what the server of a request does once the connection is made: it sends
\* its answer (to the end, or up to a read error), or it sends nothing more
ServerBehaviours == {"answer", "silent"}

\* what downloadFile sees when its client's timer fires: client.Do returns
\* an error, or the body's Read does after the chunks received so far
TimeoutResponses ==
    {r \in DlResponses :
        r.reqOk /\ (~r.connOk \/ (r.status = StatusOK /\ r.createOk
                                   /\ r.end = "error"))}

InitLive ==
    /\ version \in Versions
    /\ fs \in InitialDirs
    /\ RunStart
    /\ ListIdle
    /\ CmpIdle

\* getModelFiles: http.Get(apiURL) is sent and main waits for it
LiveListCall ==
    /\ pc = "start"
    /\ pc' = "listing"
    /\ inflight' \in ServerBehaviours
    /\ UNCHANGED <<version, listErr, files, mkdirErr, dirCreated, fs, idx,
                   successCount, attempts, results, summary, exitCode>>
    /\ UNCHANGED <<listVars, cmpVars>>

\* getModelFiles returns once the server has answered; nothing else ends
\* the wait
LiveListReturn ==
    /\ pc = "listing"
    /\ inflight = "answer"
    /\ inflight' = NoRequest
    /\ \E r \in ListResponsesOver(RunPaths) :
         LET g == getModelFiles(r) IN
         /\ listErr' = g.err
         /\ files' = g.files
         /\ pc' = IF g.err # NoErr THEN "exited" ELSE "listed"
         /\ exitCode' = IF g.err # NoErr THEN <<ExitFailure>> ELSE exitCode
    /\ UNCHANGED <<version, mkdirErr, dirCreated, fs, idx, successCount,
                   attempts, results, summary>>
    /\ UNCHANGED <<listVars, cmpVars>>

\* downloadFile: client.Do(req) is sent and main waits for it
LiveDownloadCall ==
    /\ pc = "loop"
    /\ idx < Len(files)
    /\ pc' = "downloading"
    /\ inflight' \in ServerBehaviours
    /\ UNCHANGED <<version, listErr, files, mkdirErr, dirCreated, fs, idx,
                   successCount, attempts, results, summary, exitCode>>
    /\ UNCHANGED <<listVars, cmpVars>>

\* downloadFile returns with what it met, and the loop body counts it
LiveDownloadEnds(responses) ==
    /\ pc = "downloading"
    /\ pc' = "loop"
    /\ inflight' = NoRequest
    /\ \E resp \in responses :
         LET file == files[idx + 1]
             r == downloadFile(version, file, resp, fs)
         IN  /\ fs' = r.fs
             /\ attempts' = Append(attempts, idx + 1)
             /\ results' = Append(results,
                    [err |-> r.err, written |-> Written(r, file.Name)])
             /\ successCount' = CountAfter(successCount, r.err)
             /\ idx' = NextIndex(idx, Len(files), r.err)
    /\ UNCHANGED <<version, listErr, files, mkdirErr, dirCreated,
                   summary, exitCode>>
    /\ UNCHANGED <<listVars, cmpVars>>

\* the server answered within the client's timeout
LiveDownloadReturn ==
    /\ inflight = "answer"
    /\ LiveDownloadEnds(DlResponses)

\* the client's 30 minute timer fired first: whatever the server does
LiveDownloadTimeout ==
    /\ inflight \in ServerBehaviours
    /\ LiveDownloadEnds(TimeoutResponses)

NextLive ==
    \/ ShowHelp
    \/ LiveListCall
    \/ LiveListReturn
    \/ Mkdir
    \/ LiveDownloadCall
    \/ LiveDownloadReturn
    \/ LiveDownloadTimeout
    \/ Summary

\* main is one goroutine that runs whenever it can, and the runtime's
\* timers fire: a step that stays possible is taken
SpecLive == InitLive /\ [][NextLive]_vars /\ WF_vars(NextLive)

----------------------------------------------------------------------------
(* Claims about a whole run (Spec). *)

Ended == summary # NoSummary

Succeeded == {k \in 1..Len(results) : results[k].err = NoErr}

LastResult == results[Len(results)]

\* errors downloadFile returns before it creates the local file or reads
\* the body: request not built, connection failure, status other than 200
PreBodyErrs ==
    {"failed to create request", "failed to download",
     "download failed with status"}

C2_SummaryCounts ==
    /\ 0 <= successCount
    /\ successCount <= Len(attempts)
    /\ Len(attempts) <= Len(files)
    /\ Len(results) = Len(attempts)
    /\ Ended => summary = <<Cardinality(Succeeded), Len(files)>>

\* two entries, the second answered with a status other than 200: 1/2
C2_Witness ==
    /\ summary = <<1, 2>>
    /\ results[1].err = NoErr
    /\ results[2].err = "download failed with status"

C5_RetriedBeforeFailure ==
    \A k \in 1..Len(results) :
        (\/ results[k].err = "failed to download"
         \/ (results[k].err = "failed to save file" /\ version = "simple"))
        => Cardinality({j \in 1..Len(attempts) : attempts[j] = attempts[k]}) >= 2

\* every listed entry has a path of its own
DistinctPaths ==
    \A j, k \in 1..Len(files) : files[j].Path = files[k].Path => j = k

\* C6: after a run the directory holds one file per successful download:
\* as many distinct files as successes, each holding the bytes of its entry
\* (stated for the listings the claim names, all paths different).
C6_OneFilePerSuccess ==
    (Ended /\ DistinctPaths) =>
      /\ Cardinality({files[k].Name : k \in Succeeded}) = Cardinality(Succeeded)
      /\ \A k \in Succeeded :
            /\ files[k].Name \in DOMAIN fs
            /\ fs[files[k].Name] = Content(files[k].Path, results[k].written)

\* C8: no download is attempted unless the listing succeeded and the
\* directory was then created; a failed listing means MkdirAll is never
\* called; after either failure the run is over with no attempt and no
\* summary.
C8_FatalStepsFirst ==
    /\ Len(attempts) > 0 => (listErr = NoErr /\ dirCreated)
    /\ pc = "loop" => (listErr = NoErr /\ dirCreated)
    /\ listErr # NoErr => (~dirCreated /\ ~mkdirErr)
    /\ (listErr # NoErr \/ mkdirErr) =>
          (pc = "exited" /\ attempts = <<>> /\ summary = NoSummary)

\* files were listed, MkdirAll failed, and the run is over without attempts
C8_Witness ==
    /\ pc = "exited"
    /\ mkdirErr
    /\ Len(files) > 0
    /\ attempts = <<>>

\* C9: a downloadFile call that fails before the body is read leaves the
\* model directory as it was: nothing created, nothing truncated.
C9_EarlyFailureFrame ==
    [][(Len(results') = Len(results) + 1
        /\ results'[Len(results')].err \in PreBodyErrs) => fs' = fs]_vars

\* the second entry shares the first one's file name and failed with a
\* status other than 200: the file still holds the first entry's bytes
C9_Witness ==
    /\ Len(results) = 2
    /\ results[1].err = NoErr
    /\ results[1].written > 0
    /\ results[2].err = "download failed with status"
    /\ files[1].Name = files[2].Name
    /\ files[1].Path # files[2].Path
    /\ fs[files[1].Name] = Content(files[1].Path, results[1].written)

\* C10: a download that failed while the body was copied is not counted,
\* and its local file stays for the rest of the run, holding the prefix
\* written before the failure (stated for listings whose paths are all
\* different and for the body stream's own errors).
C10_PartialFileRemains ==
    /\ successCount = Cardinality(Succeeded)
    /\ \A k \in 1..Len(results) :
          (DistinctPaths /\ version = "simple"
             /\ results[k].err = "failed to save file") =>
            /\ files[k].Name \in DOMAIN fs
            /\ fs[files[k].Name] = Content(files[k].Path, results[k].written)

----------------------------------------------------------------------------
(* Claims about getModelFiles (SpecList). *)

Listed == listResult # NoResult

Decodes(r) == r.connOk /\ r.status = StatusOK /\ r.decodeOk

IsFile(it) == it.type = "file"

\* the items of type "file", in the order received
FileItems == SelectSeq(apiResponse.items, IsFile)

\* name is the last non-empty segment of path: a run of characters without
\* a separator, starting the path or following a separator, with nothing
\* but separators after it
IsLastSegment(name, path) ==
    \E i, j \in 1..Len(path) :
        /\ i <= j
        /\ name = SubSeq(path, i, j)
        /\ \A k \in i..j : path[k] # Sep
        /\ i = 1 \/ path[i - 1] = Sep
        /\ \A k \in (j + 1)..Len(path) : path[k] = Sep

OnlySeparators(path) == \A k \in 1..Len(path) : path[k] = Sep

\* the M file items are returned without error, in order, with path and size
KeepsFileItems ==
    /\ listResult.err = NoErr
    /\ Len(listResult.files) = Len(FileItems)
    /\ Len(FileItems) =
         Cardinality({k \in 1..Len(apiResponse.items) : IsFile(apiResponse.items[k])})
    /\ \A k \in 1..Len(FileItems) :
          /\ listResult.files[k].Path = FileItems[k].path
          /\ listResult.files[k].Size = FileItems[k].size
          /\ listResult.files[k].Type = "file"

\* C4 as claimed: for a 200 response that decodes, getModelFiles returns
\* exactly the file items, in order, with path and size, and every name is
\* the final segment of its path.
C4_NameIsFinalSegment ==
    (Listed /\ Decodes(apiResponse)) =>
      /\ KeepsFileItems
      /\ \A k \in 1..Len(listResult.files) :
            IsLastSegment(listResult.files[k].Name, listResult.files[k].Path)

\* C4 amended: the same, with name = filepath.Base(path): the last
\* non-empty segment of the path when it has one, "." for the empty path
\* and "/" for a path of separators only.
C4_NameIsBase ==
    (Listed /\ Decodes(apiResponse)) =>
      /\ KeepsFileItems
      /\ \A k \in 1..Len(listResult.files) :
            LET f == listResult.files[k] IN
            IF f.Path = <<>> THEN f.Name = <<".">>
            ELSE IF OnlySeparators(f.Path) THEN f.Name = <<Sep>>
            ELSE IsLastSegment(f.Name, f.Path)

\* a directory item is dropped and the file item after it is returned
\* named by the segment after its separator
C4_Witness ==
    /\ Listed
    /\ Len(apiResponse.items) = 2
    /\ apiResponse.items[1].type = "directory"
    /\ apiResponse.items[2] = [type |-> "file", path |-> <<Sep, "a">>, size |-> 1]
    /\ listResult.err = NoErr
    /\ Len(listResult.files) = 1
    /\ listResult.files[1].Name = <<"a">>

----------------------------------------------------------------------------
(* Claims about the two versions of downloadFile (SpecCmp). *)

\* C7: for the same entry, response and directory, main.go's downloadFile
\* returns an error exactly when hugdl.go's does, and leaves the same files.
C7_SameOutcome ==
    cmpFull # NoDownload =>
      /\ (cmpFull.err = NoErr <=> cmpSimple.err = NoErr)
      /\ cmpFull.fs = cmpSimple.fs

----------------------------------------------------------------------------
(* Claims about termination (SpecLive). *)

\* C11: every run eventually ends: the listing call returns, every
\* download attempt ends, and the process exits.
C11_EveryRunEnds == <>(pc = "exited")

\* the part of C11 that rests on downloadFile's client timeout: once the
\* listing has returned, the run ends
AfterListingRunEnds == (pc = "listed") ~> (pc = "exited")

====
